---- MODULE Spec2Model ----
(***************************************************************************)
(* Model of ds-common-logger-rs-lib: init_tracing (src/src/lib.rs:152-209) *)
(* guarded by the process-wide `static INIT: Once` (lib.rs:88), the        *)
(* environment it reads, the global subscriber and panic hook it installs, *)
(* and the records the installed pipeline writes to standard output.       *)
(***************************************************************************)
EXTENDS Naturals, Sequences, FiniteSets, TLC

\* ------------------------------------------------------------------ bounds
NumThreads == 2
MaxCalls == 2
MaxOps == 1
MaxClauses == 2
MaxAppOps == 3

Threads == 1..NumThreads

\* ------------------------------------------------------------- environment
\* An environment variable is unset (std::env::var yields Err) or holds a value.
Unset == [set |-> FALSE, value |-> <<>>]
Val(v) == [set |-> TRUE, value |-> v]

\* tracing levels, from least to most verbose; "off" is a filter level only.
Levels == {"error", "warn", "info", "debug", "trace"}
FilterLevels == Levels \cup {"off"}
Rank == [off |-> 0, error |-> 1, warn |-> 2, info |-> 3, debug |-> 4, trace |-> 5]

\* Targets are module paths, as sequences of path segments.
LibTarget == <<"ds_common_logger_rs_lib">>
AppTarget == <<"app">>

\* A RUST_LOG value is a comma-separated list of clauses; a clause names a
\* target prefix (<<>> for a global level) and a level word.
Global(l) == [target |-> <<>>, level |-> l]
Module(m, l) == [target |-> m, level |-> l]
RustLogValues ==
    { Unset,
      Val(<<Module(AppTarget, "loud")>>),
      Val(<<Global("debug")>>),
      Val(<<Global("off")>>) }

\* LOG_FORMAT values, as sequences of characters.
LogFormatValues ==
    { Unset,
      Val(<<"j", "s", "o", "n">>),
      Val(<<"J", "s", "O", "N">>),
      Val(<<"t", "e", "x", "t">>) }

\* ------------------------------------------------------------------- state
VARIABLES
    RUST_LOG,          \* process environment
    LOG_FORMAT,        \* process environment
    INIT,              \* state of the Once: Incomplete, Running, Complete, Poisoned
    globalSubscriber,  \* the process-wide default subscriber
    panicHook,         \* the process-wide panic hook: "default" or "logger"
    pc,                \* position of each thread
    env_filter,        \* closure local (lib.rs:155)
    use_json,          \* closure local (lib.rs:158)
    stdout,            \* records written by the installed fmt layer
    stderr,            \* number of reports printed by the default panic hook
    spans,             \* the spans each thread has entered, outermost first
    bodyRuns,          \* history: executions of the call_once closure started
    result,            \* history: how each thread's last init_tracing call ended
    calls,             \* history: init_tracing calls begun
    ops,               \* history: application operations performed
    caught,            \* the panic each thread last raised: in flight, or caught as Err
    envSetAt,          \* history: calls begun when the environment was last changed
                       \* after initialization completed
    last,              \* history: the last event handed to the dispatcher
    readEnv            \* history: the environment values the closure read

vars == <<RUST_LOG, LOG_FORMAT, INIT, globalSubscriber, panicHook, pc, env_filter,
          use_json, stdout, stderr, spans, bodyRuns, result, calls, ops, caught, envSetAt,
          last, readEnv>>

NoSubscriber == [kind |-> "none", filter |-> {}, json |-> FALSE]
OtherSubscriber == [kind |-> "other", filter |-> {}, json |-> FALSE]
LoggerSubscriber(f, j) == [kind |-> "logger", filter |-> f, json |-> j]

NoPanic ==
    [state |-> "none", loc |-> [some |-> FALSE, file |-> "", line |-> ""], msg |-> ""]

NoEvent ==
    [level |-> "none", target |-> <<>>, message |-> "", written |-> FALSE,
     subscriber |-> "none"]

\* --------------------------------------------------------- filter (lib.rs:155)
\* A clause parses iff its level word is a filter level.
ValidClause(c) == c.level \in FilterLevels

\* EnvFilter::try_from_default_env(): Err when RUST_LOG is unset or when any
\* clause fails to parse, else the directives of all clauses; a later clause
\* replaces an earlier one for the same target.
Directives(clauses) ==
    {clauses[i] : i \in {k \in 1..Len(clauses) :
                            \A j \in (k + 1)..Len(clauses) :
                                clauses[j].target # clauses[k].target}}

\* Mutant: the lenient parse, which skips the clauses that do not parse.
try_from_default_env_lossy(v) ==
    IF v.set
    THEN [ok |-> TRUE, directives |-> Directives(SelectSeq(v.value, ValidClause))]
    ELSE [ok |-> FALSE, directives |-> {}]

try_from_default_env(v) ==
    IF v.set /\ \A i \in 1..Len(v.value) : ValidClause(v.value[i])
    THEN [ok |-> TRUE, directives |-> Directives(v.value)]
    ELSE [ok |-> FALSE, directives |-> {}]

\* EnvFilter::new("info")
DefaultFilter == {Global("info")}

\* Mutant: the fallback filter lets debug through.
ResolveFilterDebug(v) ==
    LET r == try_from_default_env(v) IN
    IF r.ok THEN r.directives ELSE {Global("debug")}

\* try_from_default_env().unwrap_or_else(|_| EnvFilter::new("info"))
ResolveFilter(v) ==
    LET r == try_from_default_env(v) IN
    IF r.ok THEN r.directives ELSE DefaultFilter

IsPrefix(p, s) == Len(p) <= Len(s) /\ \A i \in 1..Len(p) : p[i] = s[i]

\* Mutant: the least specific matching directive decides.
EnabledLeastSpecific(filter, target, level) ==
    LET matching == {d \in filter : IsPrefix(d.target, target)} IN
    /\ matching # {}
    /\ LET best == CHOOSE d \in matching :
                       \A e \in matching : Len(d.target) <= Len(e.target)
       IN Rank[level] <= Rank[best.level]

\* The filter layer: the most specific directive whose target is a prefix of
\* the event's target decides; with no matching directive the event is dropped.
Enabled(filter, target, level) ==
    LET matching == {d \in filter : IsPrefix(d.target, target)} IN
    /\ matching # {}
    /\ LET best == CHOOSE d \in matching :
                       \A e \in matching : Len(e.target) <= Len(d.target)
       IN Rank[level] <= Rank[best.level]

\* --------------------------------------------------------- format (lib.rs:158)
UpperToLower ==
    [J |-> "j", S |-> "s", O |-> "o", N |-> "n", T |-> "t", E |-> "e", X |-> "x"]
to_ascii_lowercase(c) == IF c \in DOMAIN UpperToLower THEN UpperToLower[c] ELSE c

eq_ignore_ascii_case(a, b) ==
    /\ Len(a) = Len(b)
    /\ \A i \in 1..Len(a) : to_ascii_lowercase(a[i]) = to_ascii_lowercase(b[i])

\* Mutant: a case-sensitive comparison.
UseJsonCaseSensitive(v) == v.set /\ v.value = <<"j", "s", "o", "n">>

\* std::env::var("LOG_FORMAT").map(|v| v.eq_ignore_ascii_case("json")).unwrap_or(false)
UseJson(v) == IF v.set THEN eq_ignore_ascii_case(v.value, <<"j", "s", "o", "n">>) ELSE FALSE

FormatName(j) == IF j THEN "json" ELSE "compact"

\* ------------------------------------------------------------------ events
Field(k, v) == [key |-> k, value |-> v]

\* Mutant: the confirmation always names the compact format.
ConfirmationEventCompact(j) ==
    [level |-> "info", target |-> LibTarget, message |-> "Tracing initialized",
     fields |-> <<Field("format", <<"compact">>)>>]

\* info!(format = %..., "Tracing initialized")   (lib.rs:204-207)
ConfirmationEvent(j) ==
    [level |-> "info", target |-> LibTarget, message |-> "Tracing initialized",
     fields |-> <<Field("format", <<FormatName(j)>>)>>]

\* A panic's source location: None, or Some(file, line).
NoLocation == [some |-> FALSE, file |-> "", line |-> ""]
SomeLocation(f, l) == [some |-> TRUE, file |-> f, line |-> l]
PanicLocations == {NoLocation, SomeLocation("main.rs", "7")}
PanicMessages == {"boom"}

\* Mutant: the location is dropped instead of falling back to "unknown".
LocationFieldEmpty(loc) ==
    IF loc.some THEN <<loc.file, ":", loc.line>> ELSE <<>>

\* .location().map(|l| format!("{}:{}", l.file(), l.line()))
\*            .unwrap_or_else(|| "unknown".to_string())   (lib.rs:192-195)
LocationField(loc) ==
    IF loc.some THEN <<loc.file, ":", loc.line>> ELSE <<"unknown">>

\* panic_info.to_string(): "panicked at <location>:\n<message>"   (lib.rs:199)
PayloadField(loc, msg) ==
    <<"panicked at ">> \o (IF loc.some THEN <<loc.file, ":", loc.line>> ELSE <<>>)
                       \o <<":\n", msg>>

\* error!(%location, payload = %panic_info.to_string(), "Application panicked")
PanicEvent(loc, msg) ==
    [level |-> "error", target |-> LibTarget, message |-> "Application panicked",
     fields |-> <<Field("location", LocationField(loc)),
                  Field("payload", PayloadField(loc, msg))>>]

\* An application record: tracing::info!("...") and friends in the tests.
AppEvent(level) ==
    [level |-> level, target |-> AppTarget, message |-> "app message", fields |-> <<>>]

\* ------------------------------------------------ the installed pipeline
\* Mutant: the layers are built without with_span_events(FmtSpan::CLOSE).
FmtLayerNoSpanEvents(json) ==
    [json |-> json, with_target |-> TRUE, with_thread_ids |-> TRUE,
     with_thread_names |-> TRUE, with_current_span |-> json, with_span_list |-> json,
     span_events |-> "NONE"]

\* Mutant: the compact layer is built without thread ids.
FmtLayerNoThreadIds(json) ==
    [json |-> json, with_target |-> TRUE, with_thread_ids |-> json,
     with_thread_names |-> TRUE, with_current_span |-> json, with_span_list |-> json,
     span_events |-> "CLOSE"]

\* The options of the fmt layer of each branch (lib.rs:168-175 and 180-185).
FmtLayer(json) ==
    [json |-> json, with_target |-> TRUE, with_thread_ids |-> TRUE,
     with_thread_names |-> TRUE, with_current_span |-> json, with_span_list |-> json,
     span_events |-> "CLOSE"]

\* The spans of thread t an event is in: those entered and not disabled.
Scope(t) == SelectSeq(spans[t], LAMBDA sp : sp.enabled)

\* The fmt layer renders an event that passed the filter, as JSON or compact
\* text (lib.rs:166-188): level, message and fields; target and thread id as
\* configured (0: no thread id); the JSON layer attaches the list of spans the
\* event is in as a field, the compact layer prefixes the line with their names.
Render(sub, t, ev) ==
    LET layer == FmtLayer(sub.json) IN
    [format |-> FormatName(layer.json), level |-> ev.level,
     target |-> IF layer.with_target THEN ev.target ELSE <<>>,
     threadId |-> IF layer.with_thread_ids THEN t ELSE 0,
     message |-> ev.message, fields |-> ev.fields,
     spanList |-> IF layer.with_span_list THEN Scope(t) ELSE <<>>,
     prefix |-> IF layer.json THEN <<>> ELSE [i \in 1..Len(Scope(t)) |-> Scope(t)[i].name]]

\* Mutant: the filter is re-resolved from the environment on every event.
InstalledFilterReloaded == ResolveFilter(RUST_LOG)

\* The filter the installed subscriber applies (base.with(env_filter), lib.rs:163).
InstalledFilter == globalSubscriber.filter

\* Whether the dispatcher hands the event to the installed fmt layer.
Passes(ev) ==
    /\ globalSubscriber.kind = "logger"
    /\ Enabled(InstalledFilter, ev.target, ev.level)

\* Dispatching an event: written by the installed pipeline when it passes the
\* filter; a no-op with no subscriber; with a foreign subscriber the event goes
\* to that subscriber and not through this pipeline.
Emit(t, ev) ==
    IF Passes(ev) THEN Append(stdout, Render(globalSubscriber, t, ev)) ELSE stdout

Dispatched(t, ev) ==
    [level |-> ev.level, target |-> ev.target, message |-> ev.message,
     written |-> Passes(ev), subscriber |-> globalSubscriber.kind]

\* ------------------------------------------------------------------- Init
InitProcess ==
    /\ INIT = "Incomplete"
    /\ globalSubscriber = NoSubscriber
    /\ panicHook = "default"
    /\ pc = [t \in Threads |-> "idle"]
    /\ env_filter = {}
    /\ use_json = FALSE
    /\ stdout = <<>>
    /\ stderr = 0
    /\ spans = [t \in Threads |-> <<>>]
    /\ bodyRuns = 0
    /\ result = [t \in Threads |-> "none"]
    /\ calls = 0
    /\ ops = 0
    /\ caught = [t \in Threads |-> NoPanic]
    /\ envSetAt = 0
    /\ last = NoEvent
    /\ readEnv = [rust_log |-> Unset, log_format |-> Unset]

\* The process starts with at most one of the two variables set; the other
\* combinations are reached by set_var.
Init ==
    /\ RUST_LOG \in RustLogValues
    /\ LOG_FORMAT \in LogFormatValues
    /\ RUST_LOG = Unset \/ LOG_FORMAT = Unset
    /\ InitProcess

\* ------------------------------------------------------- the panic runtime
\* The runtime hands a panic to the installed hook. The hook this crate
\* installs (lib.rs:191-202) logs one error event; the default hook reports
\* on standard error.
HookStdout(t, loc, msg) ==
    IF panicHook = "logger" THEN Emit(t, PanicEvent(loc, msg)) ELSE stdout

\* Mutant: the installed hook also calls the hook it replaced.
HookStderrChained == stderr + 1

HookStderr == IF panicHook = "default" THEN stderr + 1 ELSE stderr

HookLast(t, loc, msg) ==
    IF panicHook = "logger" THEN Dispatched(t, PanicEvent(loc, msg)) ELSE last

\* Mutant: the logging hook ends the process instead of returning.
AfterHookAbort(hook) == IF hook = "logger" THEN "aborted" ELSE "unwinding"

\* Both hooks return to the runtime, which then unwinds the panicking thread:
\* the closure at lib.rs:191-202 neither exits, aborts nor panics.
AfterHook(hook) == "unwinding"

\* The panics init_tracing itself can raise.
InitFailed == [loc |-> SomeLocation("tracing-subscriber/util.rs", "91"),
               msg |-> "failed to set global default subscriber"]
OncePoisoned == [loc |-> SomeLocation("std/sync/once.rs", "0"),
                 msg |-> "Once instance has previously been poisoned"]

\* --------------------------------------------------- init_tracing (lib.rs:152)
\* Mutant: no one-time guard, every call runs the closure.
call_once_unguarded(state) == "run"

\* Mutant: a plain flag instead of a Once; callers arriving while the closure
\* runs return at once instead of blocking.
call_once_nonblocking(state) ==
    CASE state = "Incomplete" -> "run"
      [] state = "Running" -> "skip"
      [] state = "Complete" -> "skip"
      [] state = "Poisoned" -> "panic"

\* What Once::call_once does in each state of the Once (lib.rs:153).
call_once_decision(state) ==
    CASE state = "Incomplete" -> "run"
      [] state = "Running" -> "wait"
      [] state = "Complete" -> "skip"
      [] state = "Poisoned" -> "panic"

\* INIT.call_once(|| ...): the first caller runs the closure, callers arriving
\* while it runs block, callers arriving after it returned skip it and return,
\* and callers arriving after it panicked panic; that panic goes through the
\* installed hook and unwinds out of init_tracing.
call_once(t) ==
    LET d == call_once_decision(INIT) IN
    CASE d = "run" ->
           /\ INIT' = "Running"
           /\ bodyRuns' = bodyRuns + 1
           /\ pc' = [pc EXCEPT ![t] = "env_filter"]
           /\ result' = [result EXCEPT ![t] = "none"]
           /\ UNCHANGED <<stdout, stderr, last>>
      [] d = "wait" ->
           /\ pc' = [pc EXCEPT ![t] = "blocked"]
           /\ result' = [result EXCEPT ![t] = "none"]
           /\ UNCHANGED <<INIT, bodyRuns, stdout, stderr, last>>
      [] d = "skip" ->
           /\ pc' = [pc EXCEPT ![t] = "idle"]
           /\ result' = [result EXCEPT ![t] = "returned"]
           /\ UNCHANGED <<INIT, bodyRuns, stdout, stderr, last>>
      [] d = "panic" ->
           /\ stdout' = HookStdout(t, OncePoisoned.loc, OncePoisoned.msg)
           /\ stderr' = HookStderr
           /\ last' = HookLast(t, OncePoisoned.loc, OncePoisoned.msg)
           /\ pc' = [pc EXCEPT ![t] = "idle"]
           /\ result' = [result EXCEPT ![t] = "panicked"]
           /\ UNCHANGED <<INIT, bodyRuns>>

\* A thread calls init_tracing (lib.rs:152-153).
Call(t) ==
    /\ pc[t] = "idle"
    /\ calls < MaxCalls
    /\ calls' = calls + 1
    /\ call_once(t)
    /\ UNCHANGED <<spans, RUST_LOG, LOG_FORMAT, globalSubscriber, panicHook, env_filter,
                   use_json, ops, caught, envSetAt, readEnv>>

\* A caller blocked in call_once resumes once the running closure has ended.
Resume(t) ==
    /\ pc[t] = "blocked"
    /\ call_once_decision(INIT) # "wait"
    /\ call_once(t)
    /\ UNCHANGED <<spans, RUST_LOG, LOG_FORMAT, globalSubscriber, panicHook, env_filter,
                   use_json, calls, ops, caught, envSetAt, readEnv>>

\* 1. Filtering via env (lib.rs:155)
BodyEnvFilter(t) ==
    /\ pc[t] = "env_filter"
    /\ env_filter' = ResolveFilter(RUST_LOG)
    /\ readEnv' = [readEnv EXCEPT !.rust_log = RUST_LOG]
    /\ pc' = [pc EXCEPT ![t] = "use_json"]
    /\ UNCHANGED <<spans, RUST_LOG, LOG_FORMAT, INIT, globalSubscriber, panicHook, use_json,
                   stdout, stderr, bodyRuns, result, calls, ops, caught, envSetAt, last>>

\* Mutant: the panic hook is installed before the subscriber is registered.
BodyUseJsonThenHook(t) ==
    /\ pc[t] = "use_json"
    /\ use_json' = UseJson(LOG_FORMAT)
    /\ readEnv' = [readEnv EXCEPT !.log_format = LOG_FORMAT]
    /\ panicHook' = "logger"
    /\ pc' = [pc EXCEPT ![t] = "init"]
    /\ UNCHANGED <<spans, RUST_LOG, LOG_FORMAT, INIT, globalSubscriber, env_filter,
                   stdout, stderr, bodyRuns, result, calls, ops, caught, envSetAt, last>>

\* 2. Decide on format layer (lib.rs:158-160)
BodyUseJson(t) ==
    /\ pc[t] = "use_json"
    /\ use_json' = UseJson(LOG_FORMAT)
    /\ readEnv' = [readEnv EXCEPT !.log_format = LOG_FORMAT]
    /\ pc' = [pc EXCEPT ![t] = "init"]
    /\ UNCHANGED <<spans, RUST_LOG, LOG_FORMAT, INIT, globalSubscriber, panicHook, env_filter,
                   stdout, stderr, bodyRuns, result, calls, ops, caught, envSetAt, last>>

\* Mutant: a failed registration is ignored and the closure goes on.
BodyInitIgnoringFailure(t) ==
    /\ pc[t] = "init"
    /\ globalSubscriber' = IF globalSubscriber.kind = "none"
                           THEN LoggerSubscriber(env_filter, use_json)
                           ELSE globalSubscriber
    /\ pc' = [pc EXCEPT ![t] = "set_hook"]
    /\ UNCHANGED <<spans, RUST_LOG, LOG_FORMAT, INIT, panicHook, env_filter, use_json,
                   stdout, stderr, bodyRuns, result, calls, ops, caught, envSetAt, last,
                   readEnv>>

\* 4. Attach stdout layer + init (lib.rs:163-188): .init() registers the
\* assembled subscriber as the global default, and panics when a global default
\* is already set. That panic goes through the installed hook and unwinds
\* through call_once, which poisons the Once, and out of init_tracing.
BodyInit(t) ==
    /\ pc[t] = "init"
    /\ IF globalSubscriber.kind = "none"
       THEN /\ globalSubscriber' = LoggerSubscriber(env_filter, use_json)
            /\ pc' = [pc EXCEPT ![t] = "set_hook"]
            /\ UNCHANGED <<stdout, stderr, last>>
            /\ UNCHANGED <<INIT, result>>
       ELSE /\ stdout' = HookStdout(t, InitFailed.loc, InitFailed.msg)
            /\ stderr' = HookStderr
            /\ last' = HookLast(t, InitFailed.loc, InitFailed.msg)
            /\ INIT' = "Poisoned"
            /\ pc' = [pc EXCEPT ![t] = "idle"]
            /\ result' = [result EXCEPT ![t] = "panicked"]
            /\ UNCHANGED globalSubscriber
    /\ UNCHANGED <<spans, RUST_LOG, LOG_FORMAT, panicHook, env_filter, use_json,
                   bodyRuns, calls, ops, caught, envSetAt, readEnv>>

\* 5. Log panics (lib.rs:191-202): std::panic::set_hook replaces the hook.
BodySetHook(t) ==
    /\ pc[t] = "set_hook"
    /\ panicHook' = "logger"
    /\ pc' = [pc EXCEPT ![t] = "info"]
    /\ UNCHANGED <<spans, RUST_LOG, LOG_FORMAT, INIT, globalSubscriber, env_filter, use_json,
                   stdout, stderr, bodyRuns, result, calls, ops, caught, envSetAt, last,
                   readEnv>>

\* info!(format = ..., "Tracing initialized") (lib.rs:204-207)
BodyInfo(t) ==
    /\ pc[t] = "info"
    /\ stdout' = Emit(t, ConfirmationEvent(use_json))
    /\ last' = Dispatched(t, ConfirmationEvent(use_json))
    /\ pc' = [pc EXCEPT ![t] = "body_done"]
    /\ UNCHANGED <<spans, RUST_LOG, LOG_FORMAT, INIT, globalSubscriber, panicHook, env_filter,
                   use_json, stderr, bodyRuns, result, calls, ops, caught, envSetAt,
                   readEnv>>

\* The closure returned: the Once becomes Complete and init_tracing returns
\* (lib.rs:208-209).
OnceComplete(t) ==
    /\ pc[t] = "body_done"
    /\ INIT' = "Complete"
    /\ pc' = [pc EXCEPT ![t] = "idle"]
    /\ result' = [result EXCEPT ![t] = "returned"]
    /\ UNCHANGED <<spans, RUST_LOG, LOG_FORMAT, globalSubscriber, panicHook, env_filter,
                   use_json, stdout, stderr, bodyRuns, calls, ops, caught, envSetAt, last,
                   readEnv>>

\* ------------------------------------------------ the rest of the process
\* tracing::info!(...) etc. from application code (tests/integration_tests.rs:38-47).
DoLog(t, ev) ==
    /\ pc[t] = "idle"
    /\ ops' = ops + 1
    /\ stdout' = Emit(t, ev)
    /\ last' = Dispatched(t, ev)
    /\ UNCHANGED <<spans, RUST_LOG, LOG_FORMAT, INIT, globalSubscriber, panicHook, pc,
                   env_filter, use_json, stderr, bodyRuns, result, calls, caught,
                   envSetAt, readEnv>>

Log(t, level) ==
    /\ ops < MaxOps
    /\ DoLog(t, AppEvent(level))

\* Mutant: the hook tears the subscriber down after logging.
DoPanicDropsSubscriber(t, loc, msg) ==
    /\ pc[t] = "idle"
    /\ ops' = ops + 1
    /\ stdout' = HookStdout(t, loc, msg)
    /\ stderr' = HookStderr
    /\ last' = HookLast(t, loc, msg)
    /\ pc' = [pc EXCEPT ![t] = AfterHook(panicHook)]
    /\ caught' = [caught EXCEPT ![t] = [state |-> "pending", loc |-> loc, msg |-> msg]]
    /\ globalSubscriber' = IF panicHook = "logger" THEN NoSubscriber ELSE globalSubscriber
    /\ UNCHANGED <<spans, RUST_LOG, LOG_FORMAT, INIT, panicHook, env_filter,
                   use_json, bodyRuns, result, calls, envSetAt, readEnv>>

\* panic!(...) inside catch_unwind (tests/panic_handling.rs:9-11): the runtime
\* invokes the installed hook, then unwinds.
DoPanic(t, loc, msg) ==
    /\ pc[t] = "idle"
    /\ ops' = ops + 1
    /\ stdout' = HookStdout(t, loc, msg)
    /\ stderr' = HookStderr
    /\ last' = HookLast(t, loc, msg)
    /\ pc' = [pc EXCEPT ![t] = AfterHook(panicHook)]
    /\ caught' = [caught EXCEPT ![t] = [state |-> "pending", loc |-> loc, msg |-> msg]]
    /\ UNCHANGED <<spans, RUST_LOG, LOG_FORMAT, INIT, globalSubscriber, panicHook, env_filter,
                   use_json, bodyRuns, result, calls, envSetAt, readEnv>>

Panic(t, loc, msg) ==
    /\ ops < MaxOps
    /\ DoPanic(t, loc, msg)

\* The unwinding reaches catch_unwind, which yields Err (panic_handling.rs:14).
CatchUnwind(t) ==
    /\ pc[t] = "unwinding"
    /\ pc' = [pc EXCEPT ![t] = "idle"]
    /\ caught' = [caught EXCEPT ![t].state = "Err"]
    /\ UNCHANGED <<spans, RUST_LOG, LOG_FORMAT, INIT, globalSubscriber, panicHook, env_filter,
                   use_json, stdout, stderr, bodyRuns, result, calls, ops, envSetAt,
                   last, readEnv>>

\* Application code changes the environment (std::env::set_var).
SetRustLog(t, v) ==
    /\ pc[t] = "idle"
    /\ ops < MaxOps
    /\ ops' = ops + 1
    /\ v # RUST_LOG
    /\ RUST_LOG' = v
    /\ envSetAt' = IF INIT = "Complete" THEN calls ELSE envSetAt
    /\ UNCHANGED <<spans, LOG_FORMAT, INIT, globalSubscriber, panicHook, pc, env_filter,
                   use_json, stdout, stderr, bodyRuns, result, calls, caught,
                   last, readEnv>>

SetLogFormat(t, v) ==
    /\ pc[t] = "idle"
    /\ ops < MaxOps
    /\ ops' = ops + 1
    /\ v # LOG_FORMAT
    /\ LOG_FORMAT' = v
    /\ envSetAt' = IF INIT = "Complete" THEN calls ELSE envSetAt
    /\ UNCHANGED <<spans, RUST_LOG, INIT, globalSubscriber, panicHook, pc, env_filter,
                   use_json, stdout, stderr, bodyRuns, result, calls, caught,
                   last, readEnv>>

\* Other code of the process registers a global default subscriber of its own.
OtherInstall ==
    /\ globalSubscriber.kind = "none"
    /\ globalSubscriber' = OtherSubscriber
    /\ UNCHANGED <<spans, RUST_LOG, LOG_FORMAT, INIT, panicHook, pc, env_filter, use_json,
                   stdout, stderr, bodyRuns, result, calls, ops, caught, envSetAt, last,
                   readEnv>>

Next ==
    \/ \E t \in Threads : Call(t)
    \/ \E t \in Threads : Resume(t)
    \/ \E t \in Threads : BodyEnvFilter(t)
    \/ \E t \in Threads : BodyUseJson(t)
    \/ \E t \in Threads : BodyInit(t)
    \/ \E t \in Threads : BodySetHook(t)
    \/ \E t \in Threads : BodyInfo(t)
    \/ \E t \in Threads : OnceComplete(t)
    \/ \E t \in Threads, level \in Levels : Log(t, level)
    \/ \E t \in Threads, loc \in PanicLocations, msg \in PanicMessages : Panic(t, loc, msg)
    \/ \E t \in Threads : CatchUnwind(t)
    \/ \E t \in Threads, v \in RustLogValues : SetRustLog(t, v)
    \/ \E t \in Threads, v \in LogFormatValues : SetLogFormat(t, v)
    \/ OtherInstall

Spec == Init /\ [][Next]_vars

\* Fair scheduling of the threads inside init_tracing: a thread that can take
\* its next step in call_once or in the closure eventually takes it.
FairSpec ==
    /\ Spec
    /\ \A t \in Threads :
         WF_vars(\/ Resume(t) \/ BodyEnvFilter(t) \/ BodyUseJson(t) \/ BodyInit(t)
                 \/ BodySetHook(t) \/ BodyInfo(t) \/ OnceComplete(t))

\* ------------------------------- spans (tests/integration_tests.rs:26-35)
SpanNames == {"test_operation", "inner"}

\* span!(Level::INFO, name, ...): the metadata the filter sees.
SpanMeta(name) ==
    [level |-> "info", target |-> AppTarget, message |-> name, fields |-> <<>>]

\* let span = span!(Level::INFO, name, ...); let _enter = span.enter();
\* The span is disabled when no subscriber is installed or the filter rejects
\* its metadata. Nothing is written: only FmtSpan::CLOSE is configured.
DoSpanEnter(t, name) ==
    /\ pc[t] = "idle"
    /\ ops' = ops + 1
    /\ spans' = [spans EXCEPT
                   ![t] = Append(@, [name |-> name, enabled |-> Passes(SpanMeta(name))])]
    /\ UNCHANGED <<RUST_LOG, LOG_FORMAT, INIT, globalSubscriber, panicHook, pc,
                   env_filter, use_json, stdout, stderr, bodyRuns, result, calls, caught,
                   envSetAt, last, readEnv>>

\* The event the fmt layer synthesises when a span closes: at the span's level
\* and target, with the busy and idle times of the span.
CloseEvent(sp) ==
    [level |-> "info", target |-> AppTarget, message |-> "close",
     fields |-> <<Field("time.busy", <<"duration">>), Field("time.idle", <<"duration">>)>>]

\* The fmt layer writes a close record for the spans that reached it, when built
\* with_span_events(FmtSpan::CLOSE) (lib.rs:175, 186).
OnClose(sp) ==
    /\ globalSubscriber.kind = "logger"
    /\ sp.enabled
    /\ FmtLayer(globalSubscriber.json).span_events = "CLOSE"

\* End of the scope: the guard is dropped (exit), then the span (close). The
\* close record is rendered in the context of the closing span.
DoSpanExit(t) ==
    /\ pc[t] = "idle"
    /\ spans[t] # <<>>
    /\ ops' = ops + 1
    /\ LET sp == spans[t][Len(spans[t])] IN
         /\ stdout' = IF OnClose(sp)
                      THEN Append(stdout, Render(globalSubscriber, t, CloseEvent(sp)))
                      ELSE stdout
         /\ last' = [level |-> "info", target |-> AppTarget, message |-> "close",
                     written |-> OnClose(sp), subscriber |-> globalSubscriber.kind]
    /\ spans' = [spans EXCEPT ![t] = SubSeq(@, 1, Len(@) - 1)]
    /\ UNCHANGED <<RUST_LOG, LOG_FORMAT, INIT, globalSubscriber, panicHook, pc,
                   env_filter, use_json, stderr, bodyRuns, result, calls, caught,
                   envSetAt, readEnv>>

\* ------------------------------------------- the filter, on directive lists
\* The main thread of a single-threaded program.
Main == 1

\* RUST_LOG as a list of up to MaxClauses clauses: a global level or a
\* module=level override, with a level word that may fail to parse ("loud").
ClauseTargets == {<<>>, <<"app">>, <<"app", "db">>}
ClauseWords == FilterLevels \cup {"loud"}
Clauses == {Module(m, w) : m \in ClauseTargets, w \in ClauseWords}
FilterInputs ==
    {Val(q) : q \in UNION {[1..n -> Clauses] : n \in 1..MaxClauses}}

ProbeTargets == {<<"app">>, <<"app", "db">>, <<"other">>}
ProbeEvent(target, level) ==
    [level |-> level, target |-> target, message |-> "app message", fields |-> <<>>]

\* One application record, of any level and module, after init_tracing.
Probe(target, level) ==
    /\ INIT = "Complete"
    /\ ops = 0
    /\ DoLog(Main, ProbeEvent(target, level))

FilterInit ==
    /\ RUST_LOG \in FilterInputs
    /\ LOG_FORMAT = Unset
    /\ InitProcess

FilterNext ==
    \/ Call(Main)
    \/ BodyEnvFilter(Main)
    \/ BodyUseJson(Main)
    \/ BodyInit(Main)
    \/ BodySetHook(Main)
    \/ BodyInfo(Main)
    \/ OnceComplete(Main)
    \/ \E target \in ProbeTargets, level \in Levels : Probe(target, level)

FilterSpec == FilterInit /\ [][FilterNext]_vars

\* ------------------- a single-threaded program that initialises, then logs
\* Startup: init_tracing is called once, first thing (examples, tests).
AppStart == INIT = "Incomplete" /\ Call(Main)

AppLog(level) == INIT = "Complete" /\ ops < MaxAppOps /\ DoLog(Main, AppEvent(level))

AppPanic(loc, msg) == INIT = "Complete" /\ ops < MaxAppOps /\ DoPanic(Main, loc, msg)

SpanEnter(name) == INIT = "Complete" /\ ops < MaxAppOps /\ DoSpanEnter(Main, name)

SpanExit == INIT = "Complete" /\ ops < MaxAppOps /\ DoSpanExit(Main)

AppInit ==
    /\ RUST_LOG \in RustLogValues
    /\ LOG_FORMAT \in LogFormatValues
    /\ InitProcess

AppNext ==
    \/ AppStart
    \/ BodyEnvFilter(Main)
    \/ BodyUseJson(Main)
    \/ BodyInit(Main)
    \/ BodySetHook(Main)
    \/ BodyInfo(Main)
    \/ OnceComplete(Main)
    \/ \E level \in Levels : AppLog(level)
    \/ \E loc \in PanicLocations, msg \in PanicMessages : AppPanic(loc, msg)
    \/ CatchUnwind(Main)
    \/ \E name \in SpanNames : SpanEnter(name)
    \/ SpanExit

AppSpec == AppInit /\ [][AppNext]_vars

\* ================================================================ claims
Range(q) == {q[i] : i \in 1..Len(q)}
Confirmations == {i \in 1..Len(stdout) : stdout[i].message = "Tracing initialized"}
PanicRecords == {i \in 1..Len(stdout) : stdout[i].message = "Application panicked"}
InBody == {"env_filter", "use_json", "init", "set_hook", "info", "body_done"}
AllIdle == \A t \in Threads : pc[t] = "idle"
FieldOf(rec, k) == {f.value : f \in {g \in Range(rec.fields) : g.key = k}}

\* C1: under every interleaving of concurrent and sequential calls, the
\* closure guarded by INIT is started at most once in the life of the process.
C1_BodyAtMostOnce == bodyRuns <= 1

\* C1 witness: a racing caller is blocked while another thread runs the closure.
C1_Witness ==
    \E t, u \in Threads : pc[t] = "blocked" /\ pc[u] \in InBody /\ bodyRuns = 1

\* C2 (as claimed): once N >= 1 calls have been made and all have ended, there
\* has been exactly one installation (subscriber and hook installed) and
\* exactly one confirmation record has been written.
C2_ExactlyOneInstallAndConfirmation ==
    (calls >= 1 /\ AllIdle) =>
        /\ globalSubscriber.kind = "logger"
        /\ panicHook = "logger"
        /\ Cardinality(Confirmations) = 1

\* C3 (as claimed): no call to init_tracing ever ends in a panic.
C3_NeverPanics == \A t \in Threads : result[t] # "panicked"

\* C4 (as claimed): whenever a caller has returned, the subscriber is
\* registered, the panic hook is installed and the confirmation record has
\* been written.
C4_ReturnedImpliesConfirmed ==
    \A t \in Threads :
        result[t] = "returned" =>
            /\ globalSubscriber.kind = "logger"
            /\ panicHook = "logger"
            /\ Confirmations # {}

\* C4 (amended): whenever a caller has returned, the closure has run to
\* completion (the Once is Complete, no thread is inside the closure), the
\* subscriber is registered, the panic hook is installed, and the confirmation
\* record has been written exactly once if the installed filter admits info
\* records of this crate and not at all otherwise.
C4_ReturnedImpliesBodyDone ==
    \A t \in Threads :
        result[t] = "returned" =>
            /\ INIT = "Complete"
            /\ \A u \in Threads : pc[u] \notin InBody
            /\ globalSubscriber.kind = "logger"
            /\ panicHook = "logger"
            /\ Cardinality(Confirmations) =
                   IF Enabled(globalSubscriber.filter, LibTarget, "info") THEN 1 ELSE 0

\* C4 witness: two callers have both returned and the confirmation is written.
C4_Witness ==
    /\ \A t \in Threads : result[t] = "returned"
    /\ Confirmations # {}

\* C5 (as claimed): under fair scheduling every thread that is inside
\* init_tracing (running the closure, or blocked on it) eventually returns from
\* it successfully.
C5_EveryCallReturns ==
    \A t \in Threads :
        (pc[t] \in InBody \cup {"blocked"}) ~> (pc[t] = "idle" /\ result[t] = "returned")

\* A panic is raised in this step by thread t (outside init_tracing).
RaisesPanic(t) == caught[t].state # "pending" /\ caught'[t].state = "pending"

WellFormedPanicRecord(rec, t) ==
    /\ rec.level = "error"
    /\ rec.message = "Application panicked"
    /\ rec.threadId = t
    /\ \E l \in FieldOf(rec, "location") :
          /\ Len(l) > 0
          /\ l = IF caught'[t].loc.some
                 THEN <<caught'[t].loc.file, ":", caught'[t].loc.line>>
                 ELSE <<"unknown">>
    /\ \E q \in FieldOf(rec, "payload") : caught'[t].msg \in Range(q)

\* C6 (as claimed): after initialization, every panic writes exactly one
\* error record "Application panicked" with a non-empty location ("file:line"
\* or "unknown") and the panic's message in its payload.
C6_EveryPanicLogged ==
    [][\A t \in Threads :
          (INIT = "Complete" /\ RaisesPanic(t)) =>
              /\ Len(stdout') = Len(stdout) + 1
              /\ SubSeq(stdout', 1, Len(stdout)) = stdout
              /\ WellFormedPanicRecord(stdout'[Len(stdout')], t)]_vars

\* C6 (amended): after initialization, every panic writes exactly one such
\* record when the installed filter admits error records of this crate (any
\* filter but "off"), and writes nothing otherwise.
C6_PanicLoggedIfEnabled ==
    [][\A t \in Threads :
          (INIT = "Complete" /\ RaisesPanic(t)) =>
              IF Enabled(globalSubscriber.filter, LibTarget, "error")
              THEN /\ Len(stdout') = Len(stdout) + 1
                   /\ SubSeq(stdout', 1, Len(stdout)) = stdout
                   /\ WellFormedPanicRecord(stdout'[Len(stdout')], t)
              ELSE stdout' = stdout]_vars

\* C6 witness: a panic without location information has been logged after
\* initialization, with location "unknown".
C6_Witness ==
    /\ INIT = "Complete"
    /\ \E i \in PanicRecords : <<"unknown">> \in FieldOf(stdout[i], "location")

\* C7: a panic that has been raised, with the logging hook as with the default
\* hook, is unwinding towards its catch point until catch_unwind yields Err:
\* the hook neither ends the process nor swallows the panic.
C7_PanicStillUnwinds ==
    \A t \in Threads :
        /\ pc[t] # "aborted"
        /\ caught[t].state = "pending" <=> pc[t] = "unwinding"

\* C7 witness: a panic logged by the installed hook was caught as Err.
C7_Witness ==
    /\ PanicRecords # {}
    /\ \E t \in Threads : caught[t].state = "Err" /\ pc[t] = "idle"

\* RUST_LOG, as read, is unparseable: some clause has no level word.
Unparseable(v) ==
    v.set /\ \E i \in 1..Len(v.value) :
                v.value[i].level \notin {"off", "error", "warn", "info", "debug", "trace"}

DefaultVisible == {"info", "warn", "error"}

\* C8: when RUST_LOG was unset or unparseable at initialization, the installed
\* filter is info: an application record at any of the five levels is written
\* iff its level is info, warn or error.
C8_DefaultFilterInfo ==
    (globalSubscriber.kind = "logger"
        /\ (~readEnv.rust_log.set \/ Unparseable(readEnv.rust_log))) =>
        /\ \A l \in Levels :
              Enabled(InstalledFilter, AppTarget, l) <=> l \in DefaultVisible
        /\ (last.subscriber = "logger" /\ last.message = "app message") =>
              (last.written <=> last.level \in DefaultVisible)
        /\ \A i \in 1..Len(stdout) : stdout[i].level \in DefaultVisible

\* C8 witness: with an unparseable RUST_LOG, a debug record was suppressed.
C8_Witness ==
    /\ globalSubscriber.kind = "logger"
    /\ Unparseable(readEnv.rust_log)
    /\ last.subscriber = "logger"
    /\ last.message = "app message"
    /\ last.level = "debug"
    /\ ~last.written

JsonSpellings == {Val(<<"j", "s", "o", "n">>), Val(<<"J", "s", "O", "N">>)}

\* C9: the installed output format is JSON iff LOG_FORMAT, as read at
\* initialization, was set to "json" in some letter case; every record is
\* written in that format.
C9_JsonIffJsonIgnoringCase ==
    globalSubscriber.kind = "logger" =>
        /\ globalSubscriber.json <=> readEnv.log_format \in JsonSpellings
        /\ \A i \in 1..Len(stdout) :
              stdout[i].format =
                  IF readEnv.log_format \in JsonSpellings THEN "json" ELSE "compact"

\* C9 witness: LOG_FORMAT=JsON was read and a JSON record has been written.
C9_Witness ==
    /\ globalSubscriber.kind = "logger"
    /\ readEnv.log_format = Val(<<"J", "s", "O", "N">>)
    /\ \E i \in 1..Len(stdout) : stdout[i].format = "json"

\* C10: once initialization has completed, no step (a change of RUST_LOG or
\* LOG_FORMAT, a further call to init_tracing, or any other) changes the
\* installed filter, the output format or the panic hook.
C10_ConfigurationNeverReread ==
    [][INIT = "Complete" =>
          /\ INIT' = "Complete"
          /\ globalSubscriber'.kind = "logger"
          /\ InstalledFilter' = InstalledFilter
          /\ globalSubscriber'.json = globalSubscriber.json
          /\ panicHook' = panicHook]_vars

\* C10 witness: RUST_LOG was changed after initialization to a value that
\* resolves to another filter, and a later call to init_tracing has returned.
C10_Witness ==
    /\ INIT = "Complete"
    /\ AllIdle
    /\ envSetAt >= 1
    /\ calls > envSetAt
    /\ ResolveFilter(RUST_LOG) # InstalledFilter

\* The clause of list q that decides for a target: among the clauses whose
\* target is a prefix of it, the one with the longest target and, for the same
\* target, the last; 0 if no clause matches.
Deciding(q, target) ==
    LET idx == {i \in 1..Len(q) : IsPrefix(q[i].target, target)} IN
    IF idx = {} THEN 0
    ELSE CHOOSE i \in idx :
             \A j \in idx :
                 \/ Len(q[j].target) < Len(q[i].target)
                 \/ (q[j].target = q[i].target /\ j <= i)

AllValid(v) ==
    v.set /\ \A i \in 1..Len(v.value) :
                v.value[i].level \in {"off", "error", "warn", "info", "debug", "trace"}

LastWasProbe == last.subscriber = "logger" /\ last.message = "app message"

C19_AllOrNothing ==
    (globalSubscriber.kind = "logger" /\ Unparseable(readEnv.rust_log)) =>
        /\ InstalledFilter = {Global("info")}
        /\ \A target \in ProbeTargets \cup {LibTarget}, l \in Levels :
              Enabled(InstalledFilter, target, l) <=> l \in DefaultVisible
        /\ LastWasProbe => (last.written <=> last.level \in DefaultVisible)

\* C19 witness: RUST_LOG=trace,app=loud was read, and a debug record of module
\* app, which the clause "trace" alone would let through, was suppressed.
C19_Witness ==
    /\ readEnv.rust_log = Val(<<Global("trace"), Module(<<"app">>, "loud")>>)
    /\ LastWasProbe
    /\ last.target = <<"app">>
    /\ last.level = "debug"
    /\ ~last.written

\* C12 (as claimed): once the closure has been executed or attempted and no
\* thread is inside it any more, the guard is done (Complete), and every call
\* that has ended since has returned.
C12_GuardDoneAfterFirstExecution ==
    (bodyRuns >= 1 /\ \A t \in Threads : pc[t] \notin InBody) =>
        /\ INIT = "Complete"
        /\ \A t \in Threads : result[t] \in {"none", "returned"}

\* The closure has passed its registration step.
RegistrationAttempted ==
    bodyRuns >= 1 /\ \A t \in Threads : pc[t] \notin {"env_filter", "use_json", "init"}

\* C13: the steps of the installation happen in the order environment read
\* and filter/format decision, registration, hook installation, confirmation:
\* the registered subscriber carries the filter and format decided from the
\* values read, the hook is installed only after the registration, and the
\* confirmation is dispatched only after the hook is installed.
C13_StepsInOrder ==
    /\ globalSubscriber.kind = "logger" =>
          /\ bodyRuns >= 1
          /\ globalSubscriber.filter = ResolveFilter(readEnv.rust_log)
          /\ globalSubscriber.json = UseJson(readEnv.log_format)
    /\ panicHook = "logger" =>
          /\ RegistrationAttempted
          /\ globalSubscriber.kind = "logger"
    /\ (last.message = "Tracing initialized" \/ Confirmations # {}) => panicHook = "logger"
    /\ \A t \in Threads :
          pc[t] = "body_done" => panicHook = "logger" /\ globalSubscriber.kind = "logger"

\* C13 witness: the subscriber is registered and the hook installed, and the
\* confirmation has not been dispatched yet.
C13_Witness ==
    /\ \E t \in Threads : pc[t] = "info"
    /\ globalSubscriber.kind = "logger"
    /\ panicHook = "logger"
    /\ last.message # "Tracing initialized"

\* C14: every confirmation record is written at info level, and its format
\* field names the format of the installed output layer, in which the record
\* itself is rendered: "json" with the JSON layer, "compact" otherwise.
C14_ConfirmationNamesFormat ==
    \A i \in Confirmations :
        /\ stdout[i].level = "info"
        /\ FieldOf(stdout[i], "format") = {<<stdout[i].format>>}
        /\ stdout[i].format = IF globalSubscriber.json THEN "json" ELSE "compact"

\* C14 witness: a confirmation record written by the JSON layer.
C14_Witness ==
    \E i \in Confirmations : stdout[i].format = "json" /\ globalSubscriber.json

\* C17: every record written by the installed pipeline carries a thread
\* identifier, in both formats and at every level, also when it comes from a
\* thread that did not run the installation.
C17_EveryRecordHasThreadId ==
    \A i \in 1..Len(stdout) : stdout[i].threadId \in Threads

\* C17 witness: a compact record written from another thread than the one that
\* ran the installation and wrote the confirmation.
C17_Witness ==
    \E i \in Confirmations, j \in 1..Len(stdout) :
        /\ stdout[j].threadId # stdout[i].threadId
        /\ stdout[j].format = "compact"
        /\ stdout[j].message = "app message"

C20_PreviousHookNotInvoked ==
    [][\A t \in Threads :
          (panicHook = "logger" /\ RaisesPanic(t)) => stderr' = stderr]_vars

\* C20 witness: a panic after initialization was logged by the installed hook
\* and caught, and the default hook never reported anything.
C20_Witness ==
    /\ PanicRecords # {}
    /\ stderr = 0
    /\ \E t \in Threads : caught[t].state = "Err"

\* What the filter decided from RUST_LOG as read at initialization admits: the
\* directive list when every clause parses, the default "info" otherwise.
ExpectedVisible(target, level) ==
    IF AllValid(readEnv.rust_log)
    THEN LET q == readEnv.rust_log.value
             d == Deciding(q, target) IN
         d # 0 /\ Rank[level] <= Rank[q[d].level]
    ELSE level \in DefaultVisible

\* Thread t logs an application record in this step.
LogsRecord(t) ==
    /\ ops' = ops + 1
    /\ spans' = spans
    /\ caught' = caught
    /\ last'.message = "app message"

\* C15: from a panic after initialization on (raised, unwinding, caught), the
\* guard stays Complete and the subscriber and the hook stay installed; a
\* record logged after the caught panic is written exactly when the filter
\* chosen at initialization admits it, and a later panic is logged likewise.
C15_CaughtPanicKeepsLogging ==
    [][\A t \in Threads :
          (INIT = "Complete" /\ (RaisesPanic(t) \/ caught[t].state # "none")) =>
              /\ INIT' = "Complete"
              /\ globalSubscriber' = globalSubscriber
              /\ globalSubscriber.kind = "logger"
              /\ panicHook' = "logger"
              /\ (caught[t].state = "Err" /\ LogsRecord(t)) =>
                    IF ExpectedVisible(last'.target, last'.level)
                    THEN /\ Len(stdout') = Len(stdout) + 1
                         /\ SubSeq(stdout', 1, Len(stdout)) = stdout
                         /\ stdout'[Len(stdout')].message = "app message"
                         /\ stdout'[Len(stdout')].level = last'.level
                    ELSE stdout' = stdout
              /\ (caught[t].state = "Err" /\ RaisesPanic(t)) =>
                    IF ExpectedVisible(LibTarget, "error")
                    THEN /\ Len(stdout') = Len(stdout) + 1
                         /\ WellFormedPanicRecord(stdout'[Len(stdout')], t)
                    ELSE stdout' = stdout]_vars

\* C15 witness: after two panics that were logged and caught, an application
\* record has been written.
C15_Witness ==
    /\ INIT = "Complete"
    /\ caught[Main].state = "Err"
    /\ Cardinality(PanicRecords) = 2
    /\ stdout[Len(stdout)].message = "app message"
    /\ \A i \in PanicRecords : i < Len(stdout)

\* Thread t leaves its innermost span in this step.
ClosesSpan(t) == Len(spans'[t]) < Len(spans[t])

SpanNamesOf(list) == [i \in 1..Len(list) |-> list[i].name]

\* C16 (as claimed): leaving a span writes exactly one record, the close
\* record, with the JSON layer as with the compact layer; only JSON records
\* carry a span list.
C16_CloseRecordInBothFormats ==
    [][\A t \in Threads :
          /\ ClosesSpan(t) =>
                /\ Len(stdout') = Len(stdout) + 1
                /\ SubSeq(stdout', 1, Len(stdout)) = stdout
                /\ stdout'[Len(stdout')].message = "close"
          /\ \A i \in 1..Len(stdout') :
                stdout'[i].spanList # <<>> => stdout'[i].format = "json"]_vars

\* C16 (amended): entering a span writes nothing; leaving it writes exactly one
\* close record, in the format installed, when the filter chosen at
\* initialization admits the span (info level, the application's target), and
\* nothing otherwise. A JSON record carries the list of the spans it is in,
\* outermost first; a compact record carries no such list, only the names of
\* those spans inline.
C16_CloseRecordIfSpanAdmitted ==
    [][\A t \in Threads :
          LET admitted == ExpectedVisible(AppTarget, "info")
              json == UseJson(readEnv.log_format)
              names == IF admitted THEN SpanNamesOf(spans[t]) ELSE <<>>
              rec == stdout'[Len(stdout')] IN
          /\ Len(spans'[t]) > Len(spans[t]) => stdout' = stdout
          /\ ClosesSpan(t) =>
                IF admitted
                THEN /\ Len(stdout') = Len(stdout) + 1
                     /\ SubSeq(stdout', 1, Len(stdout)) = stdout
                     /\ rec.message = "close"
                     /\ rec.level = "info"
                     /\ rec.format = (IF json THEN "json" ELSE "compact")
                     /\ names[Len(names)] = spans[t][Len(spans[t])].name
                ELSE stdout' = stdout
          /\ (/\ INIT = "Complete"
              /\ Len(stdout') = Len(stdout) + 1
              /\ rec.threadId = t) =>
                /\ SpanNamesOf(rec.spanList) = (IF json THEN names ELSE <<>>)
                /\ rec.prefix = (IF json THEN <<>> ELSE names)]_vars

\* C16 witness: with the JSON layer, the close record of a span nested in
\* another one has been written, carrying both spans.
C16_Witness ==
    \E i \in 1..Len(stdout) :
        /\ stdout[i].message = "close"
        /\ stdout[i].format = "json"
        /\ Len(stdout[i].spanList) = 2

====
